---- MODULE Spec2Model ----
(***************************************************************************)
(* Model of src/src/dense_storage.rs: IndexAllocator and DenseStorage<T>,  *)
(* a generational slot map.  Every method is a pure operator from the      *)
(* object's state to its new state and return value, and one action of the *)
(* state machine applies it to inputs drawn from small sets.               *)
(***************************************************************************)
EXTENDS Integers, Sequences, FiniteSets, TLC

\* ---------------------------------------------------------------- bounds
\* next_index is advanced at most up to MaxSlots; input handles have an
\* index in 0..MaxSlots-1, which is outside the buffer until the buffer has
\* grown that far.
MaxSlots == 2
\* generations of input handles are in 0..MaxGen; a handle is queued for
\* recycling only while its generation is below MaxGen.
MaxGen == 2
\* stored values are 1..MaxVal
MaxVal == 2
\* cap on the length of recycle_queue
MaxQueue == 1
\* cap on the length of the pending recycled list
MaxPending == 1
\* cap on the recycle queue and the pending list of an allocator used alone
MaxFifo == 3
\* cap on both when reconciling calls run with several handles pending
MaxReuse == 2
\* number of callers that reserve concurrently
MaxCallers == 3
\* number of swapchain images
MaxImages == 2
\* cap on the Resized events one run of render_frame reads
MaxEvents == 2
\* width of the generation counter in the model (u32 in the source)
GenBits == 3

GenModulus == 2 ^ GenBits

\* ------------------------------------------------------------ data types
\* Option<T>: a sequence of length at most one
None == << >>
Some(v) == << v >>

\* struct Index { index, generation }
Index(i, g) == [index |-> i, generation |-> g]

\* struct Entry<T> { value, generation }
Entry(v, g) == [value |-> v, generation |-> g]

\* #[derive(Default)] IndexAllocator
DefaultIndexAllocator ==
    [next_index |-> 0, recycle_queue |-> << >>, recycled |-> << >>]

\* #[derive(Default)] DenseStorage<T>
DefaultDenseStorage ==
    [buffer |-> << >>, len |-> 0, index_allocator |-> DefaultIndexAllocator]

Values == 1 .. MaxVal
Indices == { Index(i, g) : i \in 0 .. MaxSlots - 1, g \in 0 .. MaxGen }

\* insert is called only while len is at most MaxLen - 1
MaxLen == MaxSlots + 1

\* ------------------------------------------------- what a call hands back
\* One record shape for every outcome of a call: tag is "Ok" (exists),
\* "Err" (index, current_generation), "Some" / "None" (value), "Index"
\* (index), "Unit", or "Panic" (the call aborted on an out-of-bounds index).
RetBase ==
    [tag |-> "Unit", exists |-> FALSE, value |-> None,
     index |-> Index(0, 0), current_generation |-> 0]
RetUnit == RetBase
RetPanic == [RetBase EXCEPT !.tag = "Panic"]
RetOk(exists) == [RetBase EXCEPT !.tag = "Ok", !.exists = exists]
RetIndex(index) == [RetBase EXCEPT !.tag = "Index", !.index = index]
RetOption(opt) ==
    [RetBase EXCEPT !.tag = IF opt = None THEN "None" ELSE "Some", !.value = opt]

\* struct InvalidGenerationError { index, current_generation }
InvalidGenerationError(index, current_generation) ==
    [RetBase EXCEPT !.tag = "Err", !.index = index,
                    !.current_generation = current_generation]

\* ------------------------------------------------------- IndexAllocator
\* reserve that reissues a recycled handle under its old generation
reserve_keeps_generation(alloc) ==
    IF alloc.recycle_queue # << >>
    THEN LET recycled == Head(alloc.recycle_queue)
         IN  [alloc |-> [alloc EXCEPT !.recycle_queue = Tail(@),
                                      !.recycled = Append(@, recycled)],
              ret |-> recycled]
    ELSE [alloc |-> [alloc EXCEPT !.next_index = @ + 1],
          ret |-> Index(alloc.next_index, 0)]

\* reserve that returns the counter's value after the advance
reserve_returns_advanced(alloc) ==
    IF alloc.recycle_queue # << >>
    THEN LET popped == Head(alloc.recycle_queue)
             recycled == Index(popped.index,
                               (popped.generation + 1) % GenModulus)
         IN  [alloc |-> [alloc EXCEPT !.recycle_queue = Tail(@),
                                      !.recycled = Append(@, recycled)],
              ret |-> recycled]
    ELSE [alloc |-> [alloc EXCEPT !.next_index = @ + 1],
          ret |-> Index(alloc.next_index + 1, 0)]

\* reserve that reads the counter on the fresh path and does not advance it
reserve_without_advance(alloc) ==
    IF alloc.recycle_queue # << >>
    THEN LET popped == Head(alloc.recycle_queue)
             recycled == Index(popped.index,
                               (popped.generation + 1) % GenModulus)
         IN  [alloc |-> [alloc EXCEPT !.recycle_queue = Tail(@),
                                      !.recycled = Append(@, recycled)],
              ret |-> recycled]
    ELSE [alloc |-> alloc, ret |-> Index(alloc.next_index, 0)]

\* reserve whose generation has no width: it never overflows
reserve_wide_generation(alloc) ==
    IF alloc.recycle_queue # << >>
    THEN LET popped == Head(alloc.recycle_queue)
             recycled == Index(popped.index, popped.generation + 1)
         IN  [alloc |-> [alloc EXCEPT !.recycle_queue = Tail(@),
                                      !.recycled = Append(@, recycled)],
              ret |-> recycled]
    ELSE [alloc |-> [alloc EXCEPT !.next_index = @ + 1],
          ret |-> Index(alloc.next_index, 0)]

\* reserve that advances the counter on the reuse path too
reserve_always_advances(alloc) ==
    IF alloc.recycle_queue # << >>
    THEN LET popped == Head(alloc.recycle_queue)
             recycled == Index(popped.index,
                               (popped.generation + 1) % GenModulus)
         IN  [alloc |-> [alloc EXCEPT !.recycle_queue = Tail(@),
                                      !.recycled = Append(@, recycled),
                                      !.next_index = @ + 1],
              ret |-> recycled]
    ELSE [alloc |-> [alloc EXCEPT !.next_index = @ + 1],
          ret |-> Index(alloc.next_index, 0)]

\* IndexAllocator::reserve: [alloc, ret]
reserve(alloc) ==
    IF alloc.recycle_queue # << >>
    THEN LET popped == Head(alloc.recycle_queue)
             recycled == Index(popped.index,
                               (popped.generation + 1) % GenModulus)
         IN  [alloc |-> [alloc EXCEPT !.recycle_queue = Tail(@),
                                      !.recycled = Append(@, recycled)],
              ret |-> recycled]
    ELSE [alloc |-> [alloc EXCEPT !.next_index = @ + 1],
          ret |-> Index(alloc.next_index, 0)]

\* a fetch_add whose store is lost
fetch_add_without_store(value, n) == [value |-> value, old |-> value]

\* `recycled.generation += 1` overflows when the popped handle carries the
\* largest generation
reserve_overflows(alloc) ==
    /\ alloc.recycle_queue # << >>
    /\ Head(alloc.recycle_queue).generation = GenModulus - 1

\* reserve in a build with overflow checks (debug): the overflowing += aborts
\* after pop_front and before the push on recycled
reserve_overflow_abort(alloc) ==
    [alloc EXCEPT !.recycle_queue = Tail(@)]

\* AtomicU32::fetch_add(n, Ordering::Relaxed): one atomic read-modify-write
\* that hands back the value it replaced
fetch_add(value, n) == [value |-> value + n, old |-> value]

\* recycle that queues the handle at the front
recycle_push_front(alloc, index) ==
    [alloc EXCEPT !.recycle_queue = << index >> \o @]

\* recycle that queues the handle with its generation already advanced
recycle_bumps_generation(alloc, index) ==
    [alloc EXCEPT !.recycle_queue =
                      Append(@, Index(index.index,
                                      (index.generation + 1) % GenModulus))]

\* IndexAllocator::recycle
recycle(alloc, index) ==
    [alloc EXCEPT !.recycle_queue = Append(@, index)]

\* --------------------------------------------------------- DenseStorage
len(s) == s.len
is_empty(s) == len(s) = 0
buffer_len(s) == Len(s.buffer)

\* resize_with that stops one entry short of the length asked for
resize_with_one_short(buffer, new_len) ==
    IF new_len <= Len(buffer) + 1
    THEN buffer
    ELSE buffer \o
             [i \in 1 .. (new_len - 1 - Len(buffer)) |-> Entry(None, 0)]

\* Vec::resize_with(new_len, || Entry { value: None, generation: 0 })
resize_with(buffer, new_len) ==
    IF new_len <= Len(buffer)
    THEN SubSeq(buffer, 1, new_len)
    ELSE buffer \o [i \in 1 .. (new_len - Len(buffer)) |-> Entry(None, 0)]

\* a drain loop that stops after the first pending handle
flush_drain_head_only(buffer, recycled) ==
    IF recycled = << >>
    THEN [buffer |-> buffer, panic |-> FALSE]
    ELSE LET index == Head(recycled)
         IN  IF index.index >= Len(buffer)
             THEN [buffer |-> buffer, panic |-> TRUE]
             ELSE [buffer |-> [buffer EXCEPT ![index.index + 1] =
                                  Entry(None, index.generation)],
                   panic |-> FALSE]

\* the drain loop of flush: buffer[index.index] is an indexing that panics
\* when the index is outside the buffer
RECURSIVE flush_drain(_, _)
flush_drain(buffer, recycled) ==
    IF recycled = << >>
    THEN [buffer |-> buffer, panic |-> FALSE]
    ELSE LET index == Head(recycled)
         IN  IF index.index >= Len(buffer)
             THEN [buffer |-> buffer, panic |-> TRUE]
             ELSE flush_drain(
                      [buffer EXCEPT ![index.index + 1] =
                                         Entry(None, index.generation)],
                      Tail(recycled))

\* flush that grows the buffer and drops the pending handles unstamped
flush_without_stamp(s) ==
    [storage |-> [s EXCEPT
                     !.buffer = resize_with(@, s.index_allocator.next_index),
                     !.index_allocator.recycled = << >>],
     panic |-> FALSE]

\* DenseStorage::flush: [storage, panic]; the Drain iterator empties the
\* recycled list also when the loop body panics
flush(s) ==
    LET new_len == s.index_allocator.next_index
        drained == flush_drain(resize_with(s.buffer, new_len),
                               s.index_allocator.recycled)
    IN  [storage |-> [s EXCEPT !.buffer = drained.buffer,
                               !.index_allocator.recycled = << >>],
         panic |-> drained.panic]

\* insert that leaves the old value in a slot that already holds one
insert_keeps_old_value(s, index, value) ==
    LET f == flush(s)
        t == f.storage
    IN  IF f.panic \/ index.index >= Len(t.buffer)
        THEN [storage |-> t, ret |-> RetPanic]
        ELSE LET entry == t.buffer[index.index + 1]
                 exists == entry.value # None
             IN  IF entry.generation = index.generation
                 THEN [storage |->
                          [t EXCEPT !.len = IF exists THEN @ ELSE @ + 1,
                                    !.buffer[index.index + 1].value =
                                        IF exists THEN @ ELSE Some(value)],
                       ret |-> RetOk(exists)]
                 ELSE [storage |-> t,
                       ret |-> InvalidGenerationError(index, entry.generation)]

\* insert that counts every value it stores, also over an old one
insert_always_counts(s, index, value) ==
    LET f == flush(s)
        t == f.storage
    IN  IF f.panic \/ index.index >= Len(t.buffer)
        THEN [storage |-> t, ret |-> RetPanic]
        ELSE LET entry == t.buffer[index.index + 1]
                 exists == entry.value # None
             IN  IF entry.generation = index.generation
                 THEN [storage |->
                          [t EXCEPT !.len = @ + 1,
                                    !.buffer[index.index + 1].value =
                                        Some(value)],
                       ret |-> RetOk(exists)]
                 ELSE [storage |-> t,
                       ret |-> InvalidGenerationError(index, entry.generation)]

\* insert whose error reports the handle's generation, not the slot's
insert_reports_own_generation(s, index, value) ==
    LET f == flush(s)
        t == f.storage
    IN  IF f.panic \/ index.index >= Len(t.buffer)
        THEN [storage |-> t, ret |-> RetPanic]
        ELSE LET entry == t.buffer[index.index + 1]
                 exists == entry.value # None
             IN  IF entry.generation = index.generation
                 THEN [storage |->
                          [t EXCEPT !.len = IF exists THEN @ ELSE @ + 1,
                                    !.buffer[index.index + 1].value =
                                        Some(value)],
                       ret |-> RetOk(exists)]
                 ELSE [storage |-> t,
                       ret |-> InvalidGenerationError(index, index.generation)]

\* DenseStorage::insert: [storage, ret]
insert(s, index, value) ==
    LET f == flush(s)
        t == f.storage
    IN  IF f.panic \/ index.index >= Len(t.buffer)
        THEN [storage |-> t, ret |-> RetPanic]
        ELSE LET entry == t.buffer[index.index + 1]
                 exists == entry.value # None
             IN  IF entry.generation = index.generation
                 THEN [storage |->
                          [t EXCEPT !.len = IF exists THEN @ ELSE @ + 1,
                                    !.buffer[index.index + 1].value =
                                        Some(value)],
                       ret |-> RetOk(exists)]
                 ELSE [storage |-> t,
                       ret |-> InvalidGenerationError(index, entry.generation)]

\* remove that retires the handle by advancing the slot's generation
remove_bumps_generation(s, index) ==
    LET f == flush(s)
        t == f.storage
    IN  IF f.panic \/ index.index >= Len(t.buffer)
        THEN [storage |-> t, ret |-> RetPanic]
        ELSE LET entry == t.buffer[index.index + 1]
             IN  IF entry.generation = index.generation /\ entry.value # None
                 THEN [storage |->
                          [t EXCEPT !.len = @ - 1,
                                    !.buffer[index.index + 1] =
                                        Entry(None, entry.generation + 1)],
                       ret |-> RetOption(entry.value)]
                 ELSE [storage |-> t, ret |-> RetOption(None)]

\* remove that forgets to count the value it takes
remove_keeps_len(s, index) ==
    LET f == flush(s)
        t == f.storage
    IN  IF f.panic \/ index.index >= Len(t.buffer)
        THEN [storage |-> t, ret |-> RetPanic]
        ELSE LET entry == t.buffer[index.index + 1]
             IN  IF entry.generation = index.generation /\ entry.value # None
                 THEN [storage |->
                          [t EXCEPT !.buffer[index.index + 1].value = None],
                       ret |-> RetOption(entry.value)]
                 ELSE [storage |-> t, ret |-> RetOption(None)]

\* remove that decrements len whenever the generation matches
remove_always_decrements(s, index) ==
    LET f == flush(s)
        t == f.storage
    IN  IF f.panic \/ index.index >= Len(t.buffer)
        THEN [storage |-> t, ret |-> RetPanic]
        ELSE LET entry == t.buffer[index.index + 1]
             IN  IF entry.generation = index.generation
                 THEN [storage |->
                          [t EXCEPT !.len = @ - 1,
                                    !.buffer[index.index + 1].value = None],
                       ret |-> RetOption(entry.value)]
                 ELSE [storage |-> t, ret |-> RetOption(None)]

\* DenseStorage::remove: [storage, ret]
remove(s, index) ==
    LET f == flush(s)
        t == f.storage
    IN  IF f.panic \/ index.index >= Len(t.buffer)
        THEN [storage |-> t, ret |-> RetPanic]
        ELSE LET entry == t.buffer[index.index + 1]
             IN  IF entry.generation = index.generation /\ entry.value # None
                 THEN [storage |->
                          [t EXCEPT !.len = @ - 1,
                                    !.buffer[index.index + 1].value = None],
                       ret |-> RetOption(entry.value)]
                 ELSE [storage |-> t, ret |-> RetOption(None)]

\* remove_recycle that queues the handle whatever remove returned
remove_recycle_always(s, index) ==
    LET r == remove(s, index)
    IN  IF r.ret.tag # "Panic"
        THEN [storage |-> [r.storage EXCEPT
                              !.index_allocator = recycle(@, index)],
              ret |-> r.ret]
        ELSE r

\* DenseStorage::remove_recycle: [storage, ret]
remove_recycle(s, index) ==
    LET r == remove(s, index)
    IN  IF r.ret.tag = "Some"
        THEN [storage |-> [r.storage EXCEPT
                              !.index_allocator = recycle(@, index)],
              ret |-> r.ret]
        ELSE r

\* get that hands out the slot's value whatever the handle's generation
get_ignores_generation(s, index) ==
    IF index.index >= Len(s.buffer)
    THEN None
    ELSE s.buffer[index.index + 1].value

\* get that treats a slot with a pending recycled handle as already stamped
get_checks_pending(s, index) ==
    IF index.index >= Len(s.buffer)
    THEN None
    ELSE LET entry == s.buffer[index.index + 1]
             pending == { k \in 1 .. Len(s.index_allocator.recycled) :
                            s.index_allocator.recycled[k].index = index.index }
         IN  IF pending = {} /\ entry.generation = index.generation
             THEN entry.value
             ELSE None

\* DenseStorage::get
get(s, index) ==
    IF index.index >= Len(s.buffer)
    THEN None
    ELSE LET entry == s.buffer[index.index + 1]
         IN  IF entry.generation = index.generation
             THEN entry.value
             ELSE None

\* DenseStorage::get_mut: the same lookup; the caller may write through the
\* returned reference (see GetMut)
get_mut(s, index) == get(s, index)

\* ------------------------------------------------------------- VulkanApp
\* pub const MAX_FRAMES_IN_FLIGHT: usize = 2;
MAX_FRAMES_IN_FLIGHT == 2

Frames == 0 .. MAX_FRAMES_IN_FLIGHT - 1

\* what a draw_frame call did: the result of acquire_next_image ("skipped"
\* when it was not called), the image, whether the command buffer was
\* submitted, and the result of queue_present ("skipped" when not called)
NoDraw ==
    [acquire |-> "skipped", image_index |-> 0, submitted |-> FALSE,
     present |-> "skipped"]

\* VulkanApp::new (current_frame: 0, fences created SIGNALED) and the locals
\* of render_frame before its first run (swapchain_ok: Local<Option<bool>>)
NewVulkanApp ==
    [current_frame |-> 0,
     in_flight_fences |-> [f \in Frames |-> "signaled"],
     swapchain_ok |-> None,
     pc |-> "idle",
     events |-> 0,
     draw |-> NoDraw]

\* the results of acquire_next_image and of queue_present
AcquireResults ==
    [tag : {"ok"}, image_index : 0 .. MaxImages - 1]
        \cup [tag : {"out_of_date", "error"}, image_index : {0}]
PresentResults == {"ok", "out_of_date", "error"}

\* a draw_frame that advances current_frame on its early returns too
draw_frame_always_advances(a, acquire, present) ==
    LET waited == [a EXCEPT !.in_flight_fences[a.current_frame] = "signaled",
                            !.draw = NoDraw]
        next_frame == (a.current_frame + 1) % MAX_FRAMES_IN_FLIGHT
    IN  IF a.swapchain_ok # Some(TRUE)
        THEN [waited EXCEPT !.current_frame = next_frame]
        ELSE IF acquire.tag = "out_of_date"
        THEN [waited EXCEPT !.swapchain_ok = Some(FALSE),
                            !.draw.acquire = "out_of_date",
                            !.current_frame = next_frame]
        ELSE IF acquire.tag = "error"
        THEN [waited EXCEPT !.draw.acquire = "error", !.pc = "panic"]
        ELSE LET submitted ==
                     [waited EXCEPT
                         !.in_flight_fences[a.current_frame] = "pending",
                         !.draw = [acquire |-> "ok",
                                   image_index |-> acquire.image_index,
                                   submitted |-> TRUE,
                                   present |-> present]]
             IN  IF present = "error"
                 THEN [submitted EXCEPT !.pc = "panic"]
                 ELSE [submitted EXCEPT
                          !.swapchain_ok = IF present = "out_of_date"
                                           THEN Some(FALSE)
                                           ELSE @,
                          !.current_frame = next_frame]

\* VulkanApp::draw_frame(&mut self, swapchain_ok: &mut bool), given what
\* acquire_next_image and queue_present answer.  wait_for_fences returns
\* once the frame's fence is signaled; reset_fences and queue_submit leave
\* it pending until the submitted work completes.
draw_frame(a, acquire, present) ==
    LET waited == [a EXCEPT !.in_flight_fences[a.current_frame] = "signaled",
                            !.draw = NoDraw]
        next_frame == (a.current_frame + 1) % MAX_FRAMES_IN_FLIGHT
    IN  IF a.swapchain_ok # Some(TRUE)
        THEN waited
        ELSE IF acquire.tag = "out_of_date"
        THEN [waited EXCEPT !.swapchain_ok = Some(FALSE),
                            !.draw.acquire = "out_of_date"]
        ELSE IF acquire.tag = "error"
        THEN [waited EXCEPT !.draw.acquire = "error", !.pc = "panic"]
        ELSE LET submitted ==
                     [waited EXCEPT
                         !.in_flight_fences[a.current_frame] = "pending",
                         !.draw = [acquire |-> "ok",
                                   image_index |-> acquire.image_index,
                                   submitted |-> TRUE,
                                   present |-> present]]
             IN  IF present = "error"
                 THEN [submitted EXCEPT !.pc = "panic"]
                 ELSE [submitted EXCEPT
                          !.swapchain_ok = IF present = "out_of_date"
                                           THEN Some(FALSE)
                                           ELSE @,
                          !.current_frame = next_frame]

\* VulkanApp::resize: the swapchain is rebuilt, *swapchain_ok = true, then
\* self.draw_frame(swapchain_ok)
resize(a, acquire, present) ==
    draw_frame([a EXCEPT !.swapchain_ok = Some(TRUE)], acquire, present)

\* -------------------------------------------------------------- teardown
\* the renderer is running: nothing is destroyed yet
NoTeardown ==
    [mode |-> "running", debug |-> FALSE, ran |-> {}, pc |-> 0,
     destroyed |-> << >>]

\* a Destroy schedule whose device system is not ordered after the render
\* pass
DestroyScheduleDeviceUnordered ==
    << {"Framebuffer", "ImageView", "Swapchain"},
       {"Semaphore"}, {"Fence"}, {"CommandPool"}, {"Pipeline"},
       {"PipelineLayout"}, {"RenderPass", "Device"},
       {"DebugUtils"}, {"Surface"}, {"Instance"} >>

\* CommonStoragesPlugin::build: the systems added to Destroy, by the kind of
\* object each destroys.  .chain() orders the elements of the outer tuple;
\* the systems of the inner tuple are not ordered among themselves.
DestroySchedule ==
    << {"Framebuffer", "ImageView", "Swapchain"},
       {"Semaphore"}, {"Fence"}, {"CommandPool"}, {"Pipeline"},
       {"PipelineLayout"}, {"RenderPass"}, {"Device"},
       {"DebugUtils"}, {"Surface"}, {"Instance"} >>

\* impl Drop for VulkanApp: the destroy calls in statement order
\* (cleanup_swapchain first; both semaphore vectors)
DropOrder ==
    << "Framebuffer", "ImageView", "Swapchain", "Semaphore", "Semaphore",
       "Fence", "CommandPool", "Pipeline", "PipelineLayout", "RenderPass",
       "Device", "DebugUtils", "Surface", "Instance" >>

\* the destroy call of one system or statement: the debug messenger is
\* destroyed only when there is one (optional(..), if let Some(..))
destroy(td, kind) ==
    IF kind = "DebugUtils" /\ ~td.debug
    THEN td.destroyed
    ELSE Append(td.destroyed, kind)

\* ---------------------------------------------------------------- state
VARIABLES
    storage,    \* the DenseStorage: buffer, len, index_allocator
    last,       \* the last call: [op, index, value, ret, after_remove]
    reserves,   \* number of reserve calls so far while recycle was never
                \* called; -1 once recycle has been called
    test,       \* tests::storage_test: [pc, handles, vals, rets]
    callers,    \* concurrent callers of reserve: [initial, pc, ret]
    history,    \* of a caller that keeps its handles: [issued, again, stale]
    app,        \* the VulkanApp and render_frame's locals
    teardown    \* the objects destroyed so far: [mode, debug, destroyed]

vars == << storage, last, reserves, test, callers, history, app, teardown >>

\* the variables of the dense storage, and those of the renderer
dense == << storage, last, reserves, test, callers, history >>
rendering == << app, teardown >>

\* no handle was returned by reserve, none was refused by insert
NoHistory == [issued |-> {}, again |-> {}, stale |-> {}]

Callers == 1 .. MaxCallers

\* The record of a call.  after_remove tells that the call before it was a
\* remove or remove_recycle of the same handle that returned a value.
Call(op, index, value, ret) ==
    [op |-> op, index |-> index, value |-> value, ret |-> ret,
     after_remove |-> /\ last.op \in {"remove", "remove_recycle"}
                      /\ last.ret.tag = "Some"
                      /\ last.index = index]

\* let mut storage = DenseStorage::<i32>::default();
Init ==
    /\ storage = DefaultDenseStorage
    /\ last = [op |-> "default", index |-> Index(0, 0), value |-> 0,
               ret |-> RetUnit, after_remove |-> FALSE]
    /\ reserves = 0
    /\ test = [pc |-> 0, handles |-> << >>, vals |-> << >>, rets |-> << >>]
    /\ callers = [initial |-> 0,
                  pc |-> [c \in Callers |-> "idle"],
                  ret |-> [c \in Callers |-> Index(0, 0)]]
    /\ history = NoHistory
    /\ app = NewVulkanApp
    /\ teardown = NoTeardown

\* a panic aborts the caller: no call follows it
Panicked == last.ret.tag = "Panic"

Allocator == storage.index_allocator

\* ------------------------------------------------ the calls and their effect
\* storage.index_allocator_mut().reserve()
DoReserve ==
    LET r == reserve(Allocator)
    IN  /\ storage' = [storage EXCEPT !.index_allocator = r.alloc]
        /\ last' = Call("reserve", r.ret, 0, RetIndex(r.ret))
        /\ reserves' = IF reserves >= 0 THEN reserves + 1 ELSE reserves

\* storage.index_allocator_mut().recycle(index)
DoRecycle(index) ==
    /\ storage' = [storage EXCEPT !.index_allocator = recycle(@, index)]
    /\ last' = Call("recycle", index, 0, RetUnit)
    /\ reserves' = -1

\* storage.insert(index, value)
DoInsert(index, value) ==
    LET r == insert(storage, index, value)
    IN  /\ storage' = r.storage
        /\ last' = Call("insert", index, value, r.ret)
        /\ UNCHANGED reserves

\* storage.remove(index)
DoRemove(index) ==
    LET r == remove(storage, index)
    IN  /\ storage' = r.storage
        /\ last' = Call("remove", index, 0, r.ret)
        /\ UNCHANGED reserves

\* storage.remove_recycle(index)
DoRemoveRecycle(index) ==
    LET r == remove_recycle(storage, index)
    IN  /\ storage' = r.storage
        /\ last' = Call("remove_recycle", index, 0, r.ret)
        /\ reserves' = IF r.ret.tag = "Some" THEN -1 ELSE reserves

\* a get that reconciles before it looks the handle up
DoGetReconciles(index) ==
    LET f == flush(storage)
    IN  /\ storage' = f.storage
        /\ last' = Call("get", index, 0, RetOption(get(f.storage, index)))
        /\ UNCHANGED reserves

\* storage.get(index)
DoGet(index) ==
    /\ last' = Call("get", index, 0, RetOption(get(storage, index)))
    /\ UNCHANGED << storage, reserves >>

\* if let Some(r) = storage.get_mut(index) { *r = value }
DoGetMut(index, value) ==
    LET r == get_mut(storage, index)
    IN  /\ storage' =
               IF r = None
               THEN storage
               ELSE [storage EXCEPT
                        !.buffer[index.index + 1].value = Some(value)]
        /\ last' = Call("get_mut", index, value, RetOption(r))
        /\ UNCHANGED reserves

\* ------------------------------------- any caller: calls in any order
Reserve ==
    /\ ~Panicked
    /\ IF Allocator.recycle_queue # << >>
       THEN Len(Allocator.recycled) < MaxPending
       ELSE Allocator.next_index < MaxSlots
    /\ DoReserve
    /\ UNCHANGED << test, callers, history, rendering >>

Recycle ==
    /\ ~Panicked
    /\ Len(Allocator.recycle_queue) < MaxQueue
    /\ \E index \in Indices :
          /\ index.generation < MaxGen
          /\ DoRecycle(index)
    /\ UNCHANGED << test, callers, history, rendering >>

Insert ==
    /\ ~Panicked
    /\ len(storage) < MaxLen
    /\ \E index \in Indices, value \in Values : DoInsert(index, value)
    /\ UNCHANGED << test, callers, history, rendering >>

Remove ==
    /\ ~Panicked
    /\ \E index \in Indices : DoRemove(index)
    /\ UNCHANGED << test, callers, history, rendering >>

RemoveRecycle ==
    /\ ~Panicked
    /\ Len(Allocator.recycle_queue) < MaxQueue
    /\ \E index \in Indices :
          /\ index.generation < MaxGen
          /\ DoRemoveRecycle(index)
    /\ UNCHANGED << test, callers, history, rendering >>

Get ==
    /\ ~Panicked
    /\ \E index \in Indices : DoGet(index)
    /\ UNCHANGED << test, callers, history, rendering >>

GetMut ==
    /\ ~Panicked
    /\ \E index \in Indices, value \in Values : DoGetMut(index, value)
    /\ UNCHANGED << test, callers, history, rendering >>

Next ==
    \/ Reserve
    \/ Recycle
    \/ Insert
    \/ Remove
    \/ RemoveRecycle
    \/ Get
    \/ GetMut

Spec == Init /\ [][Next]_vars

\* ------------------------------------------------- tests::storage_test
\* The values the test inserts, drawn from the literals it uses.
TestValues == {1, 2, 3, 4, 7}

\* the handle a, b, c, d, e of the test, in the order they are reserved
TestHandle(k) == test.handles[k]

\* let a / b / c / d / e = storage.index_allocator_mut().reserve();
TestReserve ==
    /\ test.pc \in {0, 2, 4, 8, 10}
    /\ DoReserve
    /\ test' = [test EXCEPT !.pc = @ + 1,
                            !.handles = Append(@, last'.index)]
    /\ UNCHANGED << callers, history, rendering >>

\* storage.insert(x, v) for x the handle reserved last
TestInsert ==
    /\ test.pc \in {1, 3, 5, 9, 11, 12}
    /\ \E value \in TestValues :
          DoInsert(TestHandle(Len(test.handles)), value)
    /\ test' = [test EXCEPT !.pc = @ + 1,
                            !.vals = Append(@, last'.value),
                            !.rets = Append(@, last'.ret)]
    /\ UNCHANGED << callers, history, rendering >>

\* storage.remove_recycle(a); storage.remove_recycle(b);
TestRemoveRecycle ==
    /\ test.pc \in {6, 7}
    /\ DoRemoveRecycle(TestHandle(test.pc - 5))
    /\ test' = [test EXCEPT !.pc = @ + 1]
    /\ UNCHANGED << callers, history, rendering >>

\* storage.insert(a, 8)
TestStaleInsert ==
    /\ test.pc = 13
    /\ DoInsert(TestHandle(1), 8)
    /\ test' = [test EXCEPT !.pc = @ + 1]
    /\ UNCHANGED << callers, history, rendering >>

TestNext ==
    \/ TestReserve
    \/ TestInsert
    \/ TestRemoveRecycle
    \/ TestStaleInsert

SpecTest == Init /\ [][TestNext]_vars

\* ------------------------------------------ an IndexAllocator used alone
\* IndexAllocator::reserve, with nothing that drains the pending list
AllocReserve ==
    /\ IF Allocator.recycle_queue # << >>
       THEN Len(Allocator.recycled) < MaxFifo
       ELSE Allocator.next_index < MaxSlots
    /\ DoReserve
    /\ UNCHANGED << test, callers, history, rendering >>

\* IndexAllocator::recycle
AllocRecycle ==
    /\ Len(Allocator.recycle_queue) < MaxFifo
    /\ \E index \in Indices :
          /\ index.generation < MaxGen
          /\ DoRecycle(index)
    /\ UNCHANGED << test, callers, history, rendering >>

AllocNext ==
    \/ AllocReserve
    \/ AllocRecycle

SpecAlloc == Init /\ [][AllocNext]_vars

\* ------------- reconciling calls with several recycled handles pending
ReuseReserve ==
    /\ ~Panicked
    /\ IF Allocator.recycle_queue # << >>
       THEN Len(Allocator.recycled) < MaxReuse
       ELSE Allocator.next_index < MaxSlots
    /\ DoReserve
    /\ UNCHANGED << test, callers, history, rendering >>

ReuseRecycle ==
    /\ ~Panicked
    /\ Len(Allocator.recycle_queue) < MaxReuse
    /\ \E index \in Indices :
          /\ index.generation < MaxGen
          /\ DoRecycle(index)
    /\ UNCHANGED << test, callers, history, rendering >>

ReuseInsert ==
    /\ ~Panicked
    /\ len(storage) < MaxLen
    /\ \E index \in Indices : DoInsert(index, 1)
    /\ UNCHANGED << test, callers, history, rendering >>

ReuseRemove ==
    /\ ~Panicked
    /\ \E index \in Indices : DoRemove(index)
    /\ UNCHANGED << test, callers, history, rendering >>

ReuseRemoveRecycle ==
    /\ ~Panicked
    /\ Len(Allocator.recycle_queue) < MaxReuse
    /\ \E index \in Indices :
          /\ index.generation < MaxGen
          /\ DoRemoveRecycle(index)
    /\ UNCHANGED << test, callers, history, rendering >>

ReuseNext ==
    \/ ReuseReserve
    \/ ReuseRecycle
    \/ ReuseInsert
    \/ ReuseRemove
    \/ ReuseRemoveRecycle

SpecReuse == Init /\ [][ReuseNext]_vars

\* ------ a caller that only passes handles its own allocator has returned
\* history.issued: the handles reserve has returned; history.again: those
\* it has returned more than once; history.stale: those an insert refused
OwnReserve ==
    /\ ~Panicked
    /\ IF Allocator.recycle_queue # << >>
       THEN Len(Allocator.recycled) < MaxReuse
       ELSE Allocator.next_index < MaxSlots
    /\ DoReserve
    /\ LET index == reserve(Allocator).ret
       IN  history' = [history EXCEPT
                          !.issued = @ \cup {index},
                          !.again = IF index \in history.issued
                                    THEN @ \cup {index}
                                    ELSE @]
    /\ UNCHANGED << test, callers, rendering >>

OwnRecycle ==
    /\ ~Panicked
    /\ Len(Allocator.recycle_queue) < MaxReuse
    /\ \E index \in history.issued :
          /\ index.generation < MaxGen
          /\ DoRecycle(index)
    /\ UNCHANGED << test, callers, history, rendering >>

OwnInsert ==
    /\ ~Panicked
    /\ len(storage) < MaxLen
    /\ \E index \in history.issued :
          /\ DoInsert(index, 1)
          /\ history' = [history EXCEPT
                            !.stale =
                                IF insert(storage, index, 1).ret.tag = "Err"
                                THEN @ \cup {index}
                                ELSE @]
    /\ UNCHANGED << test, callers, rendering >>

OwnRemove ==
    /\ ~Panicked
    /\ \E index \in history.issued : DoRemove(index)
    /\ UNCHANGED << test, callers, history, rendering >>

OwnRemoveRecycle ==
    /\ ~Panicked
    /\ Len(Allocator.recycle_queue) < MaxReuse
    /\ \E index \in history.issued :
          /\ index.generation < MaxGen
          /\ DoRemoveRecycle(index)
    /\ UNCHANGED << test, callers, history, rendering >>

\* reserve and insert of the same caller, recording the issued handles only
IssuedReserve ==
    /\ ~Panicked
    /\ IF Allocator.recycle_queue # << >>
       THEN Len(Allocator.recycled) < MaxReuse
       ELSE Allocator.next_index < MaxSlots
    /\ DoReserve
    /\ history' = [history EXCEPT
                      !.issued = @ \cup {reserve(Allocator).ret}]
    /\ UNCHANGED << test, callers, rendering >>

IssuedInsert ==
    /\ ~Panicked
    /\ len(storage) < MaxLen
    /\ \E index \in history.issued : DoInsert(index, 1)
    /\ UNCHANGED << test, callers, history, rendering >>

OwnNext ==
    \/ IssuedReserve
    \/ OwnRecycle
    \/ IssuedInsert
    \/ OwnRemove
    \/ OwnRemoveRecycle

SpecOwn == Init /\ [][OwnNext]_vars

\* the same caller when it frees slots through remove_recycle only
ProtocolNext ==
    \/ OwnReserve
    \/ OwnInsert
    \/ OwnRemove
    \/ OwnRemoveRecycle

SpecProtocol == Init /\ [][ProtocolNext]_vars

\* --------- a caller that reuses slots until the generation counter is full
\* reserve; at the overflow the build decides: wrap around (release) or abort
\* (overflow checks)
WrapReserve ==
    /\ ~Panicked
    /\ IF Allocator.recycle_queue # << >>
       THEN Len(Allocator.recycled) <= GenModulus
       ELSE Allocator.next_index < MaxSlots
    /\ \/ /\ DoReserve
          /\ LET index == reserve(Allocator).ret
             IN  history' = [history EXCEPT
                                !.issued = @ \cup {index},
                                !.again = IF index \in history.issued
                                          THEN @ \cup {index}
                                          ELSE @]
       \/ /\ reserve_overflows(Allocator)
          /\ storage' = [storage EXCEPT !.index_allocator =
                                            reserve_overflow_abort(@)]
          /\ last' = Call("reserve", Head(Allocator.recycle_queue), 0,
                          RetPanic)
          /\ UNCHANGED << reserves, history >>
    /\ UNCHANGED << test, callers, rendering >>

\* the caller gives back the handle it has just been issued
WrapRecycle ==
    /\ ~Panicked
    /\ last.op = "reserve"
    /\ DoRecycle(last.index)
    /\ UNCHANGED << test, callers, history, rendering >>

WrapNext ==
    \/ WrapReserve
    \/ WrapRecycle

SpecWrap == Init /\ [][WrapNext]_vars

\* -- a caller that keeps reusing slots through remove_recycle, past the
\* overflow of the generation counter
\* it inserts under the handle it has just reserved and, at any time, under
\* the first handle it was ever issued, which it has kept
HotInsert ==
    /\ ~Panicked
    /\ len(storage) < MaxLen
    /\ \E index \in ({Index(0, 0)} \cap history.issued)
                       \cup {h \in {last.index} : last.op = "reserve"} :
          /\ DoInsert(index, 1)
          /\ history' = [history EXCEPT
                            !.stale =
                                IF insert(storage, index, 1).ret.tag = "Err"
                                THEN @ \cup {index}
                                ELSE @]
    /\ UNCHANGED << test, callers, rendering >>

\* it frees the slot it has just filled
HotRemoveRecycle ==
    /\ ~Panicked
    /\ last.op = "insert"
    /\ last.ret.tag = "Ok"
    /\ Len(Allocator.recycle_queue) < MaxQueue
    /\ DoRemoveRecycle(last.index)
    /\ UNCHANGED << test, callers, history, rendering >>

HotNext ==
    \/ WrapReserve
    \/ HotInsert
    \/ HotRemoveRecycle

SpecHot == Init /\ [][HotNext]_vars

\* ------------------------- callers in the fresh-slot branch of reserve
\* reserve takes &mut self, so safe callers run it one after the other; the
\* steps below also let callers interleave between the queue test and the
\* counter's fetch_add, which is the only access the atomic would protect
\* an allocator that has issued some fresh slots and has nothing queued
InitConc ==
    /\ \E n \in 0 .. MaxSlots :
          /\ storage = [DefaultDenseStorage EXCEPT
                           !.index_allocator.next_index = n]
          /\ callers = [initial |-> n,
                        pc |-> [c \in Callers |-> "idle"],
                        ret |-> [c \in Callers |-> Index(0, 0)]]
    /\ last = [op |-> "default", index |-> Index(0, 0), value |-> 0,
               ret |-> RetUnit, after_remove |-> FALSE]
    /\ reserves = 0
    /\ test = [pc |-> 0, handles |-> << >>, vals |-> << >>, rets |-> << >>]
    /\ history = NoHistory
    /\ app = NewVulkanApp
    /\ teardown = NoTeardown

\* self.recycle_queue.pop_front() is None: the caller takes the else branch
ConcPopFront(c) ==
    /\ callers.pc[c] = "idle"
    /\ Allocator.recycle_queue = << >>
    /\ callers' = [callers EXCEPT !.pc[c] = "fetch_add"]
    /\ UNCHANGED << storage, last, reserves, test, history, rendering >>

\* Index { index: self.next_index.fetch_add(1, Relaxed), generation: 0 }
ConcFetchAdd(c) ==
    /\ callers.pc[c] = "fetch_add"
    /\ LET r == fetch_add(Allocator.next_index, 1)
       IN  /\ storage' = [storage EXCEPT
                             !.index_allocator.next_index = r.value]
           /\ callers' = [callers EXCEPT !.pc[c] = "done",
                                         !.ret[c] = Index(r.old, 0)]
    /\ UNCHANGED << last, reserves, test, history, rendering >>

ConcNext ==
    \/ \E c \in Callers : ConcPopFront(c)
    \/ \E c \in Callers : ConcFetchAdd(c)

SpecConc == InitConc /\ [][ConcNext]_vars

\* ------------------------------------------- render_frame and teardown
\* render_frame starts: swapchain_ok.get_or_insert(true), and the reader
\* holds some Resized events
RenderFrameBegin ==
    /\ teardown.mode = "running"
    /\ app.pc = "idle"
    /\ \E n \in 0 .. MaxEvents :
          app' = [app EXCEPT
                     !.swapchain_ok = IF @ = None THEN Some(TRUE) ELSE @,
                     !.events = n,
                     !.pc = "events"]
    /\ UNCHANGED << dense, teardown >>

\* for event in raw_winit_events.read(): vulkan_app.resize(swapchain_ok, size)
RenderFrameResize ==
    /\ app.pc = "events"
    /\ app.events > 0
    /\ \E acquire \in AcquireResults, present \in PresentResults :
          app' = [resize(app, acquire, present) EXCEPT !.events = @ - 1]
    /\ UNCHANGED << dense, teardown >>

\* vulkan_app.draw_frame(swapchain_ok) at the end of render_frame
RenderFrameDraw ==
    /\ app.pc = "events"
    /\ app.events = 0
    /\ \E acquire \in AcquireResults, present \in PresentResults :
          LET a == draw_frame(app, acquire, present)
          IN  app' = IF a.pc = "panic" THEN a ELSE [a EXCEPT !.pc = "idle"]
    /\ UNCHANGED << dense, teardown >>

\* the application exits: the objects are destroyed by the Destroy schedule
\* or by VulkanApp's Drop, with or without a debug messenger
Exit ==
    /\ teardown.mode = "running"
    /\ app.pc = "idle"
    /\ \E mode \in {"schedule", "drop"}, debug \in BOOLEAN :
          teardown' = [teardown EXCEPT !.mode = mode, !.debug = debug]
    /\ UNCHANGED << dense, app >>

\* one system of the Destroy schedule runs, once those chained before it
\* have run
DestroySystem ==
    /\ teardown.mode = "schedule"
    /\ \E k \in 1 .. Len(DestroySchedule) :
          \E kind \in DestroySchedule[k] \ teardown.ran :
             /\ \A j \in 1 .. (k - 1) : DestroySchedule[j] \subseteq teardown.ran
             /\ teardown' = [teardown EXCEPT
                                !.ran = @ \cup {kind},
                                !.destroyed = destroy(teardown, kind)]
    /\ UNCHANGED << dense, app >>

\* the next destroy statement of VulkanApp::drop
DropStatement ==
    /\ teardown.mode = "drop"
    /\ teardown.pc < Len(DropOrder)
    /\ teardown' = [teardown EXCEPT
                       !.pc = @ + 1,
                       !.destroyed = destroy(teardown, DropOrder[teardown.pc + 1])]
    /\ UNCHANGED << dense, app >>

RenderNext ==
    \/ RenderFrameBegin
    \/ RenderFrameResize
    \/ RenderFrameDraw
    \/ Exit
    \/ DestroySystem
    \/ DropStatement

SpecRender == Init /\ [][RenderNext]_vars

\* ---------------------------------------------------------------- claims
Occupied(s) == { i \in 1 .. Len(s.buffer) : s.buffer[i].value # None }

\* C1: in every state reached by reserve, recycle, insert, remove and
\* remove_recycle calls, len() equals the number of buffer slots holding a
\* value.  The code breaks it: flush overwrites a slot that still holds a
\* value and leaves len as it was.
C1_LenCountsOccupied ==
    ~Panicked => len(storage) = Cardinality(Occupied(storage))

\* C2: when insert(h, v) returns Ok, a get(h) issued right after it returns
\* Some(v).
C2_GetAfterInsert ==
    (last.op = "insert" /\ last.ret.tag = "Ok")
        => get(storage, last.index) = Some(last.value)

C2_Witness ==
    /\ last.op = "insert"
    /\ last.ret = RetOk(TRUE)
    /\ last.index.generation = 1
    /\ get(storage, last.index) = Some(last.value)

\* a step in which remove(h), called directly or from remove_recycle,
\* returns a value
C3_RemoveStep ==
    (last'.op \in {"remove", "remove_recycle"} /\ last'.ret.tag = "Some")
        => /\ get(storage', last'.index) = None
           /\ len(storage') = len(storage) - 1

\* C3: when remove(h) returns a value (called directly or from
\* remove_recycle), a get(h) issued right after it returns None and len()
\* is one less than before the call.
C3_GetAfterRemove == [][C3_RemoveStep]_vars

C3_Witness ==
    /\ last.op = "remove"
    /\ last.ret.tag = "Some"
    /\ get(storage, last.index) = None
    /\ len(storage) = 1

\* C4 as claimed: once remove(h) has returned a value, a later insert(h, v)
\* fails with InvalidGenerationError; stated for the insert that directly
\* follows the remove.
C4_StaleAfterRemove ==
    (last.op = "insert" /\ last.after_remove) => last.ret.tag = "Err"

\* C4 as amended: remove does not make h stale.  The insert(h, v) that
\* directly follows a remove(h) or remove_recycle(h) that returned a value
\* returns Ok(false) and stores v; and whenever an insert fails, the slot
\* carries a generation other than the handle's, which the error reports.
C4_InsertAfterRemove ==
    /\ (last.op = "insert" /\ last.after_remove)
          => /\ last.ret = RetOk(FALSE)
             /\ get(storage, last.index) = Some(last.value)
    /\ (last.op = "insert" /\ last.ret.tag = "Err")
          => LET entry == storage.buffer[last.index.index + 1]
             IN  /\ entry.generation # last.index.generation
                 /\ entry.generation = last.ret.current_generation
                 /\ last.ret.index = last.index

C4_Witness ==
    /\ last.op = "insert"
    /\ last.after_remove
    /\ last.ret = RetOk(FALSE)
    /\ Allocator.recycle_queue = << last.index >>

\* a reserve step taken while the recycle queue holds exactly one handle
C5_ReserveStep ==
    (Len(Allocator.recycle_queue) = 1 /\ last'.op = "reserve")
        => LET h == Head(Allocator.recycle_queue)
           IN  /\ last'.ret = RetIndex(Index(h.index, h.generation + 1))
               /\ storage'.index_allocator.next_index = Allocator.next_index
               /\ storage'.index_allocator.recycle_queue = << >>

\* C5: when the recycle queue holds exactly one handle (s, g), the next
\* reserve returns (s, g + 1), empties the queue and issues no fresh slot.
C5_ReuseBumpsGeneration == [][C5_ReserveStep]_vars

C5_Witness ==
    /\ last.op = "reserve"
    /\ last.ret.index.generation = 2
    /\ Allocator.recycle_queue = << >>
    /\ Allocator.recycled = << last.ret.index >>

\* C6: right after a value was inserted under a reissued handle (s, g + 1)
\* (a slot carries a generation above 0 only once reserve has reissued it),
\* insert((s, g), _) fails with InvalidGenerationError, get((s, g)) is None
\* and get((s, g + 1)) is the value just inserted.
C6_OldGenerationRejected ==
    (last.op = "insert" /\ last.ret.tag = "Ok" /\ last.index.generation >= 1)
        => LET old == Index(last.index.index, last.index.generation - 1)
           IN  /\ \A v \in Values : insert(storage, old, v).ret.tag = "Err"
               /\ get(storage, old) = None
               /\ get(storage, last.index) = Some(last.value)

C6_Witness ==
    /\ last.op = "insert"
    /\ last.ret = RetOk(FALSE)
    /\ last.index.generation = 1
    /\ get(storage, last.index) = Some(last.value)
    /\ get(storage, Index(last.index.index, 0)) = None

\* C7: while recycle has never been called, the k-th reserve returns slot
\* k - 1 with generation 0.
C7_FreshReserve ==
    (last.op = "reserve" /\ reserves >= 1)
        => last.ret = RetIndex(Index(reserves - 1, 0))

C7_Witness ==
    /\ last.op = "reserve"
    /\ reserves = 2
    /\ last.ret = RetIndex(Index(1, 0))

\* C8: tests::storage_test, for any values inserted: a, b, c are slots 0,
\* 1, 2 of generation 0 and their inserts return false; then get(a), get(b),
\* get(c) are the values inserted and buffer_len() is 3; after
\* remove_recycle(a) and remove_recycle(b), d is (0, 1) and e is (1, 1),
\* insert(d, _) and the first insert(e, _) return false and the second
\* insert(e, _) returns true; then get(d) and get(e) are the values inserted
\* last, get(a) is None, insert(a, _) is an error and buffer_len() is 3.
C8_StorageTest ==
    /\ test.pc >= 1 => TestHandle(1) = Index(0, 0)
    /\ test.pc >= 3 => TestHandle(2) = Index(1, 0)
    /\ test.pc >= 5 => TestHandle(3) = Index(2, 0)
    /\ test.pc >= 9 => TestHandle(4) = Index(0, 1)
    /\ test.pc >= 11 => TestHandle(5) = Index(1, 1)
    /\ \A k \in 1 .. Len(test.rets) :
          test.rets[k] = RetOk(k = 6)
    /\ test.pc = 6 =>
          /\ \A k \in 1 .. 3 : get(storage, TestHandle(k)) = Some(test.vals[k])
    /\ test.pc >= 6 => buffer_len(storage) = 3
    /\ test.pc >= 13 =>
          /\ get(storage, TestHandle(4)) = Some(test.vals[4])
          /\ get(storage, TestHandle(5)) = Some(test.vals[6])
          /\ get(storage, TestHandle(1)) = None
    /\ test.pc = 14 => last.ret.tag = "Err"

C8_Witness ==
    /\ test.pc = 14
    /\ test.vals = << 1, 2, 3, 4, 4, 7 >>
    /\ last.op = "insert" /\ last.index = Index(0, 0) /\ last.ret.tag = "Err"
    /\ get(storage, Index(0, 1)) = Some(4)
    /\ get(storage, Index(1, 1)) = Some(7)
    /\ buffer_len(storage) = 3

\* C9: remove(h) returns None, and does not abort, when h's generation is
\* not the slot's or h's slot is not below next_index.  The code breaks it:
\* remove indexes the buffer unchecked.
C9_RemoveStaleIsNone ==
    LET h == last.index
    IN  (/\ last.op = "remove"
         /\ \/ h.index >= Allocator.next_index
            \/ /\ h.index < Len(storage.buffer)
               /\ storage.buffer[h.index + 1].generation # h.generation)
            => last.ret.tag = "None"

\* C10: insert returns Ok or InvalidGenerationError for every handle, no
\* call aborts, and only insert fails.  The code breaks it: insert indexes
\* the buffer unchecked.
C10_NoAbort ==
    /\ last.ret.tag # "Panic"
    /\ last.op = "insert" => last.ret.tag \in {"Ok", "Err"}
    /\ last.ret.tag = "Err" => last.op = "insert"

\* the entry a handle's slot holds in storage s; a slot the buffer has not
\* grown to yet holds nothing under generation 0, as resize_with fills it
SlotEntry(s, index) ==
    IF index.index < Len(s.buffer)
    THEN s.buffer[index.index + 1]
    ELSE Entry(None, 0)

\* an insert step that found the handle's generation in the slot
InsertOkStep == last'.op = "insert" /\ last'.ret.tag = "Ok"

\* what C11 says of the step, with the slot's occupancy taken from entry
C11_Effect(entry) ==
    LET exists == entry.value # None
    IN  /\ last'.ret = RetOk(exists)
        /\ SlotEntry(storage', last'.index).value = Some(last'.value)
        /\ len(storage') = IF exists THEN len(storage) ELSE len(storage) + 1

\* C11 as claimed: insert on a matching generation returns Ok(b) with b
\* true iff the slot held a value before the call, stores v, and adds 1 to
\* len iff b is false.
C11_ExistsBeforeCall ==
    [][InsertOkStep => C11_Effect(SlotEntry(storage, last'.index))]_vars

\* C11 as amended: b is true iff the slot holds a value once the call's own
\* reconciliation has run (a value of the previous generation that the
\* reconciliation clears is not counted); v is stored and len grows by 1
\* iff b is false.
C11_ExistsAfterFlush ==
    [][InsertOkStep =>
          C11_Effect(SlotEntry(flush(storage).storage, last'.index))]_vars

C11_Witness ==
    /\ last.op = "insert"
    /\ last.ret = RetOk(TRUE)
    /\ get(storage, last.index) = Some(last.value)
    /\ len(storage) = 1
    /\ Cardinality(Occupied(storage)) = 1

\* an insert step that found another generation in the slot
InsertErrStep == last'.op = "insert" /\ last'.ret.tag = "Err"

\* what C12 says of the step, with the slot as it was in storage s
C12_Effect(s) ==
    LET h == last'.index
    IN  /\ last'.ret =
              InvalidGenerationError(h, SlotEntry(storage', h).generation)
        /\ SlotEntry(storage', h).generation # h.generation
        /\ SlotEntry(storage', h) = SlotEntry(s, h)
        /\ len(storage') = len(s)

\* C12 as claimed: a failing insert reports h and the slot's generation and
\* leaves the slot's value, the slot's generation and len as they were
\* before the call.
C12_SlotAsBeforeCall == [][InsertErrStep => C12_Effect(storage)]_vars

\* C12 as amended: a failing insert reports h and the slot's reconciled
\* generation and changes nothing but what its own reconciliation changes:
\* the storage it leaves is the reconciled storage, len is as before the
\* call.
C12_SlotAsReconciled ==
    [][InsertErrStep =>
          /\ C12_Effect(flush(storage).storage)
          /\ storage' = flush(storage).storage
          /\ len(storage') = len(storage)]_vars

C12_Witness ==
    /\ last.op = "insert"
    /\ last.ret = InvalidGenerationError(Index(0, 0), 1)
    /\ SlotEntry(storage, last.index) = Entry(Some(1), 1)

\* C13: remove_recycle(h) appends h to the recycle queue iff its internal
\* remove(h) returned a value; when that returned None (stale handle, empty
\* slot, handle reserved and never inserted) the queue is as it was.
C13_RecycleIffRemoved ==
    [][last'.op = "remove_recycle" =>
          /\ last'.ret = remove(storage, last'.index).ret
          /\ storage'.index_allocator.recycle_queue =
                 IF remove(storage, last'.index).ret.tag = "Some"
                 THEN Append(Allocator.recycle_queue, last'.index)
                 ELSE Allocator.recycle_queue]_vars

C13_Witness ==
    /\ last.op = "remove_recycle"
    /\ last.ret.tag = "None"
    /\ last.index = Index(0, 0)
    /\ Allocator.next_index = 1
    /\ Allocator.recycle_queue = << >>
    /\ storage.buffer = << Entry(None, 0) >>

\* C14: over any sequence of reserve, recycle, insert, remove and
\* remove_recycle calls the generation stored in a buffer slot never goes
\* down.  The code breaks it: recycle queues the handle with whatever
\* generation it carries, and the reconciliation stamps that generation + 1
\* over a higher one.
C14_GenerationNeverDecreases ==
    [][\A i \in 1 .. Len(storage.buffer) :
          /\ i <= Len(storage'.buffer)
          /\ storage'.buffer[i].generation >= storage.buffer[i].generation
      ]_vars

\* C15: buffer_len() >= len() in every reachable state.  The code breaks
\* it: len counts values the reconciliation has cleared, so it grows past
\* the buffer.
C15_BufferLenAtLeastLen == buffer_len(storage) >= len(storage)

\* C16: right after insert, remove or remove_recycle has returned, the
\* buffer is at least next_index long, so every slot issued on the
\* fresh-slot path indexes inside the buffer.
C16_BufferCoversIssued ==
    (last.op \in {"insert", "remove", "remove_recycle"} /\ ~Panicked)
        => /\ Len(storage.buffer) >= Allocator.next_index
           /\ \A i \in 0 .. Allocator.next_index - 1 :
                 i + 1 \in DOMAIN storage.buffer

C16_Witness ==
    /\ last.op = "remove"
    /\ ~Panicked
    /\ Allocator.next_index = 2
    /\ Len(storage.buffer) = 2

\* C17: next_index never decreases and a reserve that takes a recycled
\* handle leaves it unchanged; the buffer never shrinks, is never longer
\* than next_index, and is not grown by reuse.
C17_CounterFrame ==
    [][/\ storage'.index_allocator.next_index >= Allocator.next_index
       /\ buffer_len(storage') >= buffer_len(storage)
       /\ buffer_len(storage') <= storage'.index_allocator.next_index
       /\ (last'.op = "reserve" /\ Allocator.recycle_queue # << >>)
             => /\ storage'.index_allocator.next_index = Allocator.next_index
                /\ storage'.buffer = storage.buffer]_vars

C17_Witness ==
    /\ last.op = "reserve"
    /\ last.ret.index = Index(0, 1)
    /\ Allocator.next_index = 1
    /\ buffer_len(storage) = 1

\* callers whose reserve has returned
Done == { c \in Callers : callers.pc[c] = "done" }

\* C18: callers running the fresh-slot branch of reserve against an empty
\* recycle queue, in any interleaving: the slots returned so far are
\* pairwise distinct and next_index is its initial value plus the number of
\* calls that have returned.
C18_AtomicAdvance ==
    /\ \A c, d \in Done :
          c # d => callers.ret[c].index # callers.ret[d].index
    /\ \A c \in Done : callers.ret[c].generation = 0
    /\ Allocator.next_index = callers.initial + Cardinality(Done)

C18_Witness ==
    /\ Done = Callers
    /\ callers.initial = 1
    /\ Allocator.next_index = 1 + MaxCallers

\* the handles the next n calls of reserve return
RECURSIVE reserve_n(_, _)
reserve_n(alloc, n) ==
    IF n = 0
    THEN << >>
    ELSE LET r == reserve(alloc)
         IN  << r.ret >> \o reserve_n(r.alloc, n - 1)

\* the handles the queued recycles will be reissued as, in reserve order
Upcoming(alloc) == reserve_n(alloc, Len(alloc.recycle_queue))

\* C19: reuse is FIFO.  The next reserves return the recycled handles in the
\* order they were recycled, each with its generation one higher: a recycle
\* adds its handle behind all that are queued, a reserve on a non-empty
\* queue returns the oldest, and the counter issues a fresh slot only when
\* the queue is empty.
C19_FifoReuse ==
    [][/\ last'.op = "recycle"
             => Upcoming(storage'.index_allocator) =
                    Append(Upcoming(Allocator),
                           Index(last'.index.index,
                                 last'.index.generation + 1))
       /\ (last'.op = "reserve" /\ Allocator.recycle_queue # << >>)
             => /\ last'.ret.index =
                       Index(Head(Allocator.recycle_queue).index,
                             Head(Allocator.recycle_queue).generation + 1)
                /\ Upcoming(storage'.index_allocator) =
                       Tail(Upcoming(Allocator))
       /\ (last'.op = "reserve" /\
           storage'.index_allocator.next_index # Allocator.next_index)
             => /\ Allocator.recycle_queue = << >>
                /\ last'.ret.index = Index(Allocator.next_index, 0)]_vars

C19_Witness ==
    /\ last.op = "reserve"
    /\ Allocator.recycle_queue = << >>
    /\ Allocator.recycled = << Index(1, 1), Index(0, 1), Index(1, 2) >>
    /\ last.ret.index = Index(1, 2)

\* C20: recycle(h) only appends h to the back of the recycle queue;
\* next_index, the pending recycled list, the buffer and len are as before,
\* so the slot's stored generation is still what it was.
C20_RecycleFrame ==
    [][last'.op = "recycle" =>
          /\ storage' = [storage EXCEPT !.index_allocator.recycle_queue =
                                            Append(@, last'.index)]
          /\ SlotEntry(storage', last'.index) =
                 SlotEntry(storage, last'.index)]_vars

C20_Witness ==
    /\ last.op = "recycle"
    /\ Allocator.recycle_queue = << last.index >>
    /\ last.index = Index(0, 1)
    /\ SlotEntry(storage, last.index) = Entry(Some(1), 1)

\* the generations stored in the buffer, slot by slot
Generations(s) == [i \in 1 .. Len(s.buffer) |-> s.buffer[i].generation]

\* C21: get and get_mut never reconcile: the buffer length, every slot's
\* generation, len, next_index, the recycle queue and the pending recycled
\* list are as before the call, and the call returns None (it does not
\* abort) for a handle whose slot is outside the buffer.
C21_GetFrame ==
    [][last'.op \in {"get", "get_mut"} =>
          /\ Generations(storage') = Generations(storage)
          /\ len(storage') = len(storage)
          /\ storage'.index_allocator = storage.index_allocator
          /\ last'.ret.tag \in {"None", "Some"}
          /\ last'.index.index >= Len(storage.buffer)
                => last'.ret.tag = "None"]_vars

C21_Witness ==
    /\ last.op = "get"
    /\ last.ret.tag = "None"
    /\ last.index = Index(1, 0)
    /\ Allocator.next_index = 2
    /\ Len(storage.buffer) = 1
    /\ Allocator.recycled # << >>

\* a step of a reconciling call that returned
ReconcilingStep ==
    /\ last'.op \in {"insert", "remove", "remove_recycle"}
    /\ last'.ret.tag # "Panic"

\* the k-th pending handle is the last one pending for its slot
LastPending(recycled, k) ==
    \A j \in (k + 1) .. Len(recycled) : recycled[j].index # recycled[k].index

C23_StaleReadWindow ==
    \A k \in 1 .. Len(Allocator.recycled) :
       LET h == Allocator.recycled[k]
           entry == SlotEntry(storage, h)
       IN  (/\ h.generation >= 1
            /\ entry.generation = h.generation - 1
            /\ entry.value # None)
              => /\ get(storage, Index(h.index, h.generation - 1))
                       = entry.value
                 /\ get(storage, h) = None

C23_Witness ==
    /\ last.op = "reserve"
    /\ last.ret.index = Index(0, 1)
    /\ Allocator.recycled = << Index(0, 1) >>
    /\ get(storage, Index(0, 0)) = Some(1)

\* C24: the generation increment of the reuse path has no overflow guard.
\* With a generation of GenBits bits, reserving a recycled handle of
\* generation 2^GenBits - 1 does not return a larger generation: the call
\* wraps to generation 0 or aborts; and a handle is only ever returned a
\* second time after the slots were reused 2^GenBits times (C24_Witness:
\* it then is).
C24_GenerationOverflows ==
    [][/\ (last'.op = "reserve" /\ reserve_overflows(Allocator))
             => /\ Head(Allocator.recycle_queue).index = last'.index.index
                /\ \/ last'.ret.tag = "Panic"
                   \/ /\ last'.ret = RetIndex(last'.index)
                      /\ last'.index.generation = 0
                      /\ last'.index.generation
                            < Head(Allocator.recycle_queue).generation
       /\ history'.again # {}
             => Len(storage'.index_allocator.recycled) >= GenModulus]_vars

C24_Witness ==
    /\ last.op = "reserve"
    /\ last.ret = RetIndex(Index(0, 0))
    /\ Index(0, 0) \in history.again
    /\ Index(0, GenModulus - 1) \in history.issued
    /\ Len(Allocator.recycled) = GenModulus

\* C25: handle uniqueness.  When slots are freed through remove_recycle
\* only, no two reserve calls return the same handle.  The code breaks it:
\* a handle stays valid after its remove_recycle, so insert and
\* remove_recycle succeed a second time and queue the handle twice.
C25_HandlesUnique == history.again = {}

\* C26: staleness is permanent.  When slots are freed through
\* remove_recycle only and an insert(h, _) has returned
\* InvalidGenerationError for a handle h that reserve had returned, then in
\* every later state insert(h, _) returns InvalidGenerationError and get(h)
\* and remove(h) return None.  The code breaks it once the slot's generation
\* counter has gone round: the slot carries h's generation again.
C26_StaleForever ==
    \A h \in history.stale :
       /\ insert(storage, h, 1).ret.tag = "Err"
       /\ get(storage, h) = None
       /\ remove(storage, h).ret.tag = "None"

\* the elements of a sequence
Range(seq) == { seq[k] : k \in 1 .. Len(seq) }

\* C27: when every handle passed in was returned by the storage's own
\* allocator, every handle in the recycle queue and in the pending recycled
\* list has its slot below next_index, and no call goes past the end of the
\* buffer: flush, insert and remove never abort.
C27_OwnHandlesInBounds ==
    /\ \A h \in Range(Allocator.recycle_queue) \cup Range(Allocator.recycled)
                   \cup history.issued :
          h.index < Allocator.next_index
    /\ ~Panicked
    /\ last.op \in {"insert", "remove", "remove_recycle"}
          => \A h \in history.issued : h.index < Len(storage.buffer)

C27_Witness ==
    /\ last.op = "remove"
    /\ last.ret.tag = "None"
    /\ Len(Allocator.recycle_queue) = 2
    /\ Allocator.next_index = 2
    /\ Len(storage.buffer) = 2
    /\ Generations(storage) = << 1, 1 >>

\* C28: len never underflows.  len is never below the number of slots
\* holding a value, only a remove that takes a present value decrements it,
\* by 1, and len is at least 1 when it does.
C28_LenNeverUnderflows ==
    [][/\ len(storage') >= Cardinality(Occupied(storage'))
       /\ len(storage') < len(storage)
             => /\ last'.op \in {"remove", "remove_recycle"}
                /\ last'.ret.tag = "Some"
                /\ len(storage) >= 1
                /\ len(storage') = len(storage) - 1
       /\ (last'.op \in {"remove", "remove_recycle"}
              /\ last'.ret.tag # "Some")
             => len(storage') = len(storage)]_vars

C28_Witness ==
    /\ last.op = "remove"
    /\ last.ret.tag = "Some"
    /\ len(storage) = 0
    /\ Occupied(storage) = {}
    /\ Len(storage.buffer) = 2

\* a step that is one call of draw_frame: from resize, or the one that ends
\* render_frame
DrawFrameStep == app.pc = "events" /\ app' # app
ResizeStep == DrawFrameStep /\ app.events > 0

\* the call submitted nothing, presented nothing and left current_frame
Skipped ==
    /\ ~app'.draw.submitted
    /\ app'.draw.present = "skipped"
    /\ \A f \in Frames : app'.in_flight_fences[f] # "pending"
                            \/ app.in_flight_fences[f] = "pending"
    /\ app'.current_frame = app.current_frame

\* C29: current_frame stays in 0..MAX_FRAMES_IN_FLIGHT - 1 and advances, by
\* 1 modulo MAX_FRAMES_IN_FLIGHT, only in a draw_frame that acquired an
\* image; a draw_frame that finds the swapchain out of date at acquire sets
\* swapchain_ok to false and does nothing else; while swapchain_ok is false
\* every draw_frame returns without acquiring, submitting, presenting or
\* advancing, and only resize sets swapchain_ok back to true.
C29_FrameLoop ==
    [][/\ app'.current_frame \in Frames
       /\ app'.current_frame # app.current_frame
             => /\ DrawFrameStep
                /\ app'.draw.acquire = "ok"
                /\ app'.current_frame =
                       (app.current_frame + 1) % MAX_FRAMES_IN_FLIGHT
       /\ (DrawFrameStep /\ app'.draw.acquire = "out_of_date")
             => /\ app'.swapchain_ok = Some(FALSE)
                /\ Skipped
       /\ (DrawFrameStep /\ ~ResizeStep /\ app.swapchain_ok = Some(FALSE))
             => /\ app'.swapchain_ok = Some(FALSE)
                /\ app'.draw.acquire = "skipped"
                /\ Skipped
       /\ (app.swapchain_ok = Some(FALSE) /\ app'.swapchain_ok = Some(TRUE))
             => ResizeStep]_vars

C29_Witness ==
    /\ app.pc = "idle"
    /\ app.swapchain_ok = Some(FALSE)
    /\ app.draw = NoDraw
    /\ app.current_frame = 1
    /\ app.in_flight_fences[0] = "pending"
    /\ app.in_flight_fences[1] = "signaled"

\* the objects created from the logical device
DeviceOwned ==
    {"Framebuffer", "ImageView", "Swapchain", "Semaphore", "Fence",
     "CommandPool", "Pipeline", "PipelineLayout", "RenderPass"}

\* what was destroyed before the k-th destroy call
DestroyedBefore(k) == { teardown.destroyed[i] : i \in 1 .. (k - 1) }

\* C30: teardown ordering, in the Destroy schedule and in VulkanApp's Drop:
\* every device-owned object is destroyed before the logical device, the
\* device before the debug messenger and the surface, and the instance
\* last.
C30_TeardownOrder ==
    \A k \in 1 .. Len(teardown.destroyed) :
       LET kind == teardown.destroyed[k]
       IN  /\ kind = "Device" => DeviceOwned \subseteq DestroyedBefore(k)
           /\ kind \in DeviceOwned => "Device" \notin DestroyedBefore(k)
           /\ kind \in {"DebugUtils", "Surface"}
                 => "Device" \in DestroyedBefore(k)
           /\ kind = "Instance"
                 => /\ k = Len(teardown.destroyed)
                    /\ {"Device", "Surface"} \subseteq DestroyedBefore(k)
                    /\ teardown.debug => "DebugUtils" \in DestroyedBefore(k)

C30_Witness ==
    /\ teardown.mode = "schedule"
    /\ teardown.debug
    /\ Len(teardown.destroyed) = Len(DestroySchedule) + 2
    /\ teardown.destroyed[1] = "Swapchain"
    /\ teardown.destroyed[Len(teardown.destroyed)] = "Instance"

====
